---- MODULE Spec2Model ----
(***************************************************************************)
(* Model of the rate limiters of src/rate_limiters.py.                     *)
(*                                                                         *)
(* One limiter object (`self`) is constructed in Init: its class and its   *)
(* constructor arguments are drawn from small sets.  Limiter objects share *)
(* no state, so one object at a time is analysed.                          *)
(*                                                                         *)
(* Time.  time.time() returns fractional seconds.  The clock of the model  *)
(* counts ticks of 1/TicksPerSec second; a stored timestamp is a number of *)
(* ticks.  int(time.time()) is clock \div TicksPerSec.                     *)
(*                                                                         *)
(* Rates and levels.  refill_rate / leak_rate is the rational              *)
(* rate/RateDen per second.  Token counts and bucket levels are stored in  *)
(* units of 1/Unit, Unit = RateDen * TicksPerSec, which makes              *)
(* `elapsed * rate` exact: elapsed ticks * rate numerator, in units.       *)
(***************************************************************************)
EXTENDS Integers, Sequences, FiniteSets, TLC

\* ---------------------------------------------------------------- bounds
Keys == {"a", "b"}
MaxTime == 4
MaxCalls == 5
MaxWindow == 2
MaxRequests == 2
MaxCapacity == 2
MaxRateNum == 2
RateDen == 2
TicksPerSec == 2
NumThreads == 3
RetentionHorizon == 2

Unit == RateDen * TicksPerSec
Threads == 1..NumThreads
ConcKey == "a"

Classes == {"FixedWindowCounter", "SlidingWindowLog", "SlidingWindowCounter",
            "TokenBucket", "LeakyBucket"}

VARIABLES
  self,      \* the limiter object: class, configuration and per-client dict
  clock,     \* time.time(), in ticks
  hist,      \* per key: the is_allowed calls since the key last had no state
  wasReset,  \* reset() has been called
  atLimit,   \* keys denied at the current clock right before the last reset()
  calls,     \* is_allowed calls made on the object so far
  pc,        \* concurrent callers: position in is_allowed
  frame,     \* concurrent callers: local variables and return value
  error,     \* the exception an is_allowed call raised, "none" when none
  twin,      \* a SlidingWindowCounter driven by the same calls as self
  resp       \* the last response of the dispatch layer

vars == <<self, clock, hist, wasReset, atLimit, calls, pc, frame, error, twin, resp>>

\* ---------------------------------------------------------------- helpers
Min(a, b) == IF a < b THEN a ELSE b
Max(a, b) == IF a > b THEN a ELSE b

EmptyDict == [x \in {} |-> 0]

\* an assignment that lands in every client's entry
PutShared(d, k, v) == [x \in (DOMAIN d) \cup {k} |-> v]

\* d[k] = v of a Python dict
Put(d, k, v) == [x \in (DOMAIN d) \cup {k} |-> IF x = k THEN v ELSE d[x]]

\* [ts for ts in log if ts > window_start]
RECURSIVE Filter(_, _)
Filter(log, window_start) ==
  IF log = <<>> THEN <<>>
  ELSE IF Head(log) > window_start
       THEN <<Head(log)>> \o Filter(Tail(log), window_start)
       ELSE Filter(Tail(log), window_start)

\* ---------------------------------------------------------------- construction
FixedWindowCounterInit(w, n) ==
  [class |-> "FixedWindowCounter", window_size |-> w, max_requests |-> n,
   requests |-> EmptyDict]

SlidingWindowLogInit(w, n) ==
  [class |-> "SlidingWindowLog", window_size |-> w, max_requests |-> n,
   logs |-> EmptyDict]

SlidingWindowCounterInit(w, n) ==
  [class |-> "SlidingWindowCounter", window_size |-> w, max_requests |-> n,
   requests |-> EmptyDict]

TokenBucketInit(c, r) ==
  [class |-> "TokenBucket", capacity |-> c, refill_rate |-> r,
   buckets |-> EmptyDict]

LeakyBucketInit(c, r) ==
  [class |-> "LeakyBucket", capacity |-> c, leak_rate |-> r,
   buckets |-> EmptyDict]

Constructed ==
  {FixedWindowCounterInit(w, n) : w \in 1..MaxWindow, n \in 1..MaxRequests}
  \cup {SlidingWindowLogInit(w, n) : w \in 1..MaxWindow, n \in 1..MaxRequests}
  \cup {SlidingWindowCounterInit(w, n) : w \in 1..MaxWindow, n \in 1..MaxRequests}
  \cup {TokenBucketInit(c, r) : c \in 1..MaxCapacity, r \in 1..MaxRateNum}
  \cup {LeakyBucketInit(c, r) : c \in 1..MaxCapacity, r \in 1..MaxRateNum}

NoObject == [class |-> "none"]

NoResponse == [n |-> 0, via |-> "", path |-> "", client_id |-> "", status |-> 0,
               forwarded |-> FALSE, body |-> <<>>, header |-> ""]

\* everything but the limiter object, before any call
InitRest ==
  /\ clock = 0
  /\ hist = [k \in Keys |-> <<>>]
  /\ wasReset = FALSE
  /\ atLimit = {}
  /\ calls = 0
  /\ pc = [th \in Threads |-> "start"]
  /\ frame = [th \in Threads |-> [window_start |-> 0, count |-> 0, pruned |-> <<>>, ret |-> "none"]]
  /\ error = "none"
  /\ resp = NoResponse

Init ==
  /\ self \in Constructed
  /\ twin = NoObject
  /\ InitRest

\* ---------------------------------------------------------------- ghost history
Record(k, ok, level) ==
  /\ hist' = [hist EXCEPT ![k] = Append(@, [t |-> clock, ok |-> ok, level |-> level])]
  /\ calls' = calls + 1

\* ---------------------------------------------------------------- the clock
Tick ==
  /\ clock < MaxTime
  /\ clock' = clock + 1
  /\ atLimit' = {}
  /\ UNCHANGED <<self, hist, wasReset, calls, pc, frame, error, twin, resp>>

\* ---------------------------------------------------------------- FixedWindowCounter
\* a window start that is not aligned to window_size
FWCurrentWindowUnaligned(t, window_size) == t \div TicksPerSec

FWCurrentWindow(t, window_size) ==
  ((t \div TicksPerSec) \div window_size) * window_size

\* an off-by-one quota test
FWAdmitLax(count, max_requests) == count <= max_requests

FWAdmit(count, max_requests) == count < max_requests

\* the (allowed, new dict) of FixedWindowCounter.is_allowed
FWDecide(o, k, t) ==
  LET current_window == FWCurrentWindow(t, o.window_size) IN
  IF k \notin DOMAIN o.requests
  THEN [ok |-> TRUE, requests |-> Put(o.requests, k, <<current_window, 1>>)]
  ELSE LET window_start == o.requests[k][1]
           count == o.requests[k][2] IN
       IF window_start = current_window
       THEN IF FWAdmit(count, o.max_requests)
            THEN [ok |-> TRUE, requests |-> Put(o.requests, k, <<current_window, count + 1>>)]
            ELSE [ok |-> FALSE, requests |-> o.requests]
       ELSE [ok |-> TRUE, requests |-> Put(o.requests, k, <<current_window, 1>>)]

\* the call itself: the object, the record of the call, the exception
FWCall(k) ==
  /\ self.class = "FixedWindowCounter"
  /\ calls < MaxCalls
  /\ IF self.window_size = 0
     THEN \* line 46: current_time // self.window_size raises
          /\ error' = "ZeroDivisionError"
          /\ calls' = calls + 1
          /\ UNCHANGED <<self, hist>>
     ELSE LET r == FWDecide(self, k, clock) IN
            /\ self' = [self EXCEPT !.requests = r.requests]
            /\ Record(k, r.ok, r.requests[k][2])
            /\ error' = error

FWIsAllowed(k) ==
  /\ FWCall(k)
  /\ UNCHANGED <<clock, wasReset, atLimit, pc, frame, twin, resp>>

\* ---------------------------------------------------------------- SlidingWindowLog
\* window_start = current_time - self.window_size, in ticks
WindowStart(t, window_size) == t - window_size * TicksPerSec

\* a window one tick too short
SWLPruneShort(log, t, window_size) == Filter(log, WindowStart(t, window_size) + 1)

\* the pruning of line 90: keeps the timestamps inside the window
SWLPrune(log, t, window_size) == Filter(log, WindowStart(t, window_size))

\* an off-by-one length test
SWLAdmitLax(log, max_requests) == Len(log) <= max_requests

SWLAdmit(log, max_requests) == Len(log) < max_requests

\* is_allowed with the length tested before the pruning
SWLDecideStale(o, k, t) ==
  LET old == IF k \in DOMAIN o.logs THEN o.logs[k] ELSE <<>>
      pruned == SWLPrune(old, t, o.window_size) IN
  IF SWLAdmit(old, o.max_requests)
  THEN [ok |-> TRUE, logs |-> Put(o.logs, k, Append(pruned, t))]
  ELSE [ok |-> FALSE, logs |-> Put(o.logs, k, pruned)]

\* the (allowed, new dict) of SlidingWindowLog.is_allowed
SWLDecide(o, k, t) ==
  LET pruned == IF k \in DOMAIN o.logs
                THEN SWLPrune(o.logs[k], t, o.window_size)
                ELSE <<>> IN
  IF SWLAdmit(pruned, o.max_requests)
  THEN [ok |-> TRUE, logs |-> Put(o.logs, k, Append(pruned, t))]
  ELSE [ok |-> FALSE, logs |-> Put(o.logs, k, pruned)]

\* the call itself: the object, the record of the call, the exception
SWLCall(k) ==
  /\ self.class = "SlidingWindowLog"
  /\ calls < MaxCalls
  /\ LET r == SWLDecide(self, k, clock) IN
       /\ self' = [self EXCEPT !.logs = r.logs]
       /\ Record(k, r.ok, Len(r.logs[k]))
  /\ error' = error

SWLIsAllowed(k) ==
  /\ SWLCall(k)
  /\ UNCHANGED <<clock, wasReset, atLimit, pc, frame, twin, resp>>

\* ---------------------------------------------------------------- SlidingWindowCounter
\* a pruning that keeps the timestamp on the window's edge
SWCPruneInclusive(log, t, window_size) == Filter(log, WindowStart(t, window_size) - 1)

\* the pruning of line 125
SWCPrune(log, t, window_size) == Filter(log, WindowStart(t, window_size))

SWCAdmit(log, max_requests) == Len(log) < max_requests

\* the (allowed, new dict) of SlidingWindowCounter.is_allowed
SWCDecide(o, k, t) ==
  LET pruned == IF k \in DOMAIN o.requests
                THEN SWCPrune(o.requests[k], t, o.window_size)
                ELSE <<>> IN
  IF SWCAdmit(pruned, o.max_requests)
  THEN [ok |-> TRUE, requests |-> Put(o.requests, k, Append(pruned, t))]
  ELSE [ok |-> FALSE, requests |-> Put(o.requests, k, pruned)]

\* the call itself: the object, the record of the call, the exception
SWCCall(k) ==
  /\ self.class = "SlidingWindowCounter"
  /\ calls < MaxCalls
  /\ LET r == SWCDecide(self, k, clock) IN
       /\ self' = [self EXCEPT !.requests = r.requests]
       /\ Record(k, r.ok, Len(r.requests[k]))
  /\ error' = error

SWCIsAllowed(k) ==
  /\ SWCCall(k)
  /\ UNCHANGED <<clock, wasReset, atLimit, pc, frame, twin, resp>>

\* ---------------------------------------------------------------- TokenBucket
\* a refill without the ceiling
TBRefillUncapped(tokens, elapsed, capacity, refill_rate) ==
  tokens + elapsed * refill_rate

\* min(self.capacity, tokens + elapsed * self.refill_rate), in units
TBRefill(tokens, elapsed, capacity, refill_rate) ==
  Min(capacity * Unit, tokens + elapsed * refill_rate)

\* a test for any credit instead of a whole token
TBAdmitAny(tokens) == tokens > 0

\* tokens >= 1
TBAdmit(tokens) == tokens >= Unit

\* a first call that pays its token
TBFirstCharged(capacity, t) == <<capacity * Unit - Unit, t>>

\* the bucket stored by the first call of a key
TBFirst(capacity, t) == <<capacity * Unit, t>>

\* is_allowed whose denial keeps the tokens it found and moves the time
TBDecideForgetful(o, k, t) ==
  IF k \notin DOMAIN o.buckets
  THEN [ok |-> TRUE, buckets |-> Put(o.buckets, k, TBFirst(o.capacity, t))]
  ELSE LET last_refill == o.buckets[k][2]
           elapsed == t - last_refill
           tokens == TBRefill(o.buckets[k][1], elapsed, o.capacity, o.refill_rate) IN
       IF TBAdmit(tokens)
       THEN [ok |-> TRUE, buckets |-> Put(o.buckets, k, <<tokens - Unit, t>>)]
       ELSE [ok |-> FALSE, buckets |-> Put(o.buckets, k, <<o.buckets[k][1], t>>)]

\* the (allowed, new dict) of TokenBucket.is_allowed
TBDecide(o, k, t) ==
  IF k \notin DOMAIN o.buckets
  THEN [ok |-> TRUE, buckets |-> Put(o.buckets, k, TBFirst(o.capacity, t))]
  ELSE LET last_refill == o.buckets[k][2]
           elapsed == t - last_refill
           tokens == TBRefill(o.buckets[k][1], elapsed, o.capacity, o.refill_rate) IN
       IF TBAdmit(tokens)
       THEN [ok |-> TRUE, buckets |-> Put(o.buckets, k, <<tokens - Unit, t>>)]
       ELSE [ok |-> FALSE, buckets |-> Put(o.buckets, k, <<tokens, t>>)]

\* the call itself: the object, the record of the call, the exception
TBCall(k) ==
  /\ self.class = "TokenBucket"
  /\ calls < MaxCalls
  /\ LET r == TBDecide(self, k, clock) IN
       /\ self' = [self EXCEPT !.buckets = r.buckets]
       /\ Record(k, r.ok, r.buckets[k][1])
  /\ error' = error

TBIsAllowed(k) ==
  /\ TBCall(k)
  /\ UNCHANGED <<clock, wasReset, atLimit, pc, frame, twin, resp>>

\* ---------------------------------------------------------------- LeakyBucket
\* a bucket that never drains
LBLeakStuck(requests, elapsed, leak_rate) == requests

\* max(0, requests - elapsed * self.leak_rate), in units
LBLeak(requests, elapsed, leak_rate) == Max(0, requests - elapsed * leak_rate)

\* requests < self.capacity
LBAdmit(requests, capacity) == requests < capacity * Unit

\* a first call that is not counted in the bucket
LBFirstEmpty(t) == <<0, t>>

\* the bucket stored by the first call of a key
LBFirst(t) == <<Unit, t>>

\* is_allowed whose denial restarts the leak from the level it found
LBDecidePenal(o, k, t) ==
  IF k \notin DOMAIN o.buckets
  THEN [ok |-> TRUE, buckets |-> Put(o.buckets, k, LBFirst(t))]
  ELSE LET last_leak == o.buckets[k][2]
           elapsed == t - last_leak
           requests == LBLeak(o.buckets[k][1], elapsed, o.leak_rate) IN
       IF LBAdmit(requests, o.capacity)
       THEN [ok |-> TRUE, buckets |-> Put(o.buckets, k, <<requests + Unit, t>>)]
       ELSE [ok |-> FALSE, buckets |-> Put(o.buckets, k, <<o.buckets[k][1], t>>)]

\* the (allowed, new dict) of LeakyBucket.is_allowed
LBDecide(o, k, t) ==
  IF k \notin DOMAIN o.buckets
  THEN [ok |-> TRUE, buckets |-> Put(o.buckets, k, LBFirst(t))]
  ELSE LET last_leak == o.buckets[k][2]
           elapsed == t - last_leak
           requests == LBLeak(o.buckets[k][1], elapsed, o.leak_rate) IN
       IF LBAdmit(requests, o.capacity)
       THEN [ok |-> TRUE, buckets |-> Put(o.buckets, k, <<requests + Unit, t>>)]
       ELSE [ok |-> FALSE, buckets |-> Put(o.buckets, k, <<requests, t>>)]

\* the call itself: the object, the record of the call, the exception
LBCall(k) ==
  /\ self.class = "LeakyBucket"
  /\ calls < MaxCalls
  /\ LET r == LBDecide(self, k, clock) IN
       /\ self' = [self EXCEPT !.buckets = r.buckets]
       /\ Record(k, r.ok, r.buckets[k][1])
  /\ error' = error

LBIsAllowed(k) ==
  /\ LBCall(k)
  /\ UNCHANGED <<clock, wasReset, atLimit, pc, frame, twin, resp>>

\* ---------------------------------------------------------------- reset
\* a reset that leaves the dict as it is
Keep(d) == d

\* dict.clear()
Clear(d) == EmptyDict

\* the per-client dict of the object
Store(o) ==
  CASE o.class = "FixedWindowCounter" -> o.requests
    [] o.class = "SlidingWindowLog" -> o.logs
    [] o.class = "SlidingWindowCounter" -> o.requests
    [] o.class = "TokenBucket" -> o.buckets
    [] o.class = "LeakyBucket" -> o.buckets

ResetObject(o) ==
  CASE o.class = "FixedWindowCounter" -> [o EXCEPT !.requests = Clear(@)]
    [] o.class = "SlidingWindowLog" -> [o EXCEPT !.logs = Clear(@)]
    [] o.class = "SlidingWindowCounter" -> [o EXCEPT !.requests = Clear(@)]
    [] o.class = "TokenBucket" -> [o EXCEPT !.buckets = Clear(@)]
    [] o.class = "LeakyBucket" -> [o EXCEPT !.buckets = Clear(@)]

\* the call itself: the object and the record of the calls
ResetCall ==
  /\ self.class \in Classes
  /\ self' = ResetObject(self)
  /\ wasReset' = TRUE
  /\ atLimit' = {k \in Keys : /\ hist[k] # <<>>
                              /\ ~hist[k][Len(hist[k])].ok
                              /\ hist[k][Len(hist[k])].t = clock}
  /\ hist' = [k \in Keys |-> <<>>]

Reset ==
  /\ ResetCall
  /\ UNCHANGED <<clock, calls, pc, frame, error, twin, resp>>

\* ---------------------------------------------------------------- sequential use
IsAllowed ==
  \E k \in Keys :
    \/ FWIsAllowed(k)
    \/ SWLIsAllowed(k)
    \/ SWCIsAllowed(k)
    \/ TBIsAllowed(k)
    \/ LBIsAllowed(k)

Next ==
  \/ Tick
  \/ IsAllowed
  \/ Reset

Spec == Init /\ [][Next]_vars

\* ---------------------------------------------------------------- concurrent callers
(* NumThreads callers run is_allowed(ConcKey) on one window limiter with   *)
(* no lock (the source takes none).  A step is one read or one write of    *)
(* the key's entry in the dict.  The clock does not move: every call is    *)
(* made in the same window.                                                *)

Return(th, ok) ==
  /\ pc' = [pc EXCEPT ![th] = "done"]
  /\ frame' = [frame EXCEPT ![th].ret = IF ok THEN "true" ELSE "false"]

Goto(th, label) == pc' = [pc EXCEPT ![th] = label]

\* line 48: if client_id not in self.requests
FWTest(th) ==
  /\ self.class = "FixedWindowCounter"
  /\ pc[th] = "start"
  /\ IF ConcKey \notin DOMAIN self.requests THEN Goto(th, "fw49") ELSE Goto(th, "fw52")
  /\ UNCHANGED <<self, clock, hist, wasReset, atLimit, calls, frame, error, twin, resp>>

\* lines 49-50: self.requests[client_id] = (current_window, 1); return True
FWCreate(th) ==
  /\ pc[th] = "fw49"
  /\ self' = [self EXCEPT !.requests =
                Put(@, ConcKey, <<FWCurrentWindow(clock, self.window_size), 1>>)]
  /\ Return(th, TRUE)
  /\ UNCHANGED <<clock, hist, wasReset, atLimit, calls, error, twin, resp>>

\* line 52: window_start, count = self.requests[client_id]
FWRead(th) ==
  /\ pc[th] = "fw52"
  /\ frame' = [frame EXCEPT ![th].window_start = self.requests[ConcKey][1],
                            ![th].count = self.requests[ConcKey][2]]
  /\ Goto(th, "fw54")
  /\ UNCHANGED <<self, clock, hist, wasReset, atLimit, calls, error, twin, resp>>

\* lines 54-61: the decision on the values read, and the write
FWWrite(th) ==
  /\ pc[th] = "fw54"
  /\ LET current_window == FWCurrentWindow(clock, self.window_size) IN
       IF frame[th].window_start = current_window
       THEN IF FWAdmit(frame[th].count, self.max_requests)
            THEN /\ self' = [self EXCEPT !.requests =
                               Put(@, ConcKey, <<current_window, frame[th].count + 1>>)]
                 /\ Return(th, TRUE)
            ELSE /\ self' = self
                 /\ Return(th, FALSE)
       ELSE /\ self' = [self EXCEPT !.requests = Put(@, ConcKey, <<current_window, 1>>)]
            /\ Return(th, TRUE)
  /\ UNCHANGED <<clock, hist, wasReset, atLimit, calls, error, twin, resp>>

\* line 89: if client_id in self.logs
SWLTest(th) ==
  /\ self.class = "SlidingWindowLog"
  /\ pc[th] = "start"
  /\ IF ConcKey \in DOMAIN self.logs THEN Goto(th, "swl90r") ELSE Goto(th, "swl93")
  /\ UNCHANGED <<self, clock, hist, wasReset, atLimit, calls, frame, error, twin, resp>>

\* line 90, right-hand side: the list comprehension over the stored list
SWLReadPrune(th) ==
  /\ pc[th] = "swl90r"
  /\ frame' = [frame EXCEPT ![th].pruned =
                 SWLPrune(self.logs[ConcKey], clock, self.window_size)]
  /\ Goto(th, "swl90w")
  /\ UNCHANGED <<self, clock, hist, wasReset, atLimit, calls, error, twin, resp>>

\* line 90, assignment: self.logs[client_id] = <the new list>
SWLWritePrune(th) ==
  /\ pc[th] = "swl90w"
  /\ self' = [self EXCEPT !.logs = Put(@, ConcKey, frame[th].pruned)]
  /\ Goto(th, "swl93")
  /\ UNCHANGED <<clock, hist, wasReset, atLimit, calls, frame, error, twin, resp>>

\* line 93: len(self.logs[client_id]) < self.max_requests (defaultdict creates [])
SWLCheck(th) ==
  /\ pc[th] = "swl93"
  /\ LET log == IF ConcKey \in DOMAIN self.logs THEN self.logs[ConcKey] ELSE <<>> IN
       /\ self' = [self EXCEPT !.logs = Put(@, ConcKey, log)]
       /\ IF SWLAdmit(log, self.max_requests)
          THEN Goto(th, "swl94") /\ frame' = frame
          ELSE Return(th, FALSE)
  /\ UNCHANGED <<clock, hist, wasReset, atLimit, calls, error, twin, resp>>

\* lines 94-95: self.logs[client_id].append(current_time); return True
SWLAppend(th) ==
  /\ pc[th] = "swl94"
  /\ self' = [self EXCEPT !.logs = Put(@, ConcKey, Append(@[ConcKey], clock))]
  /\ Return(th, TRUE)
  /\ UNCHANGED <<clock, hist, wasReset, atLimit, calls, error, twin, resp>>

ThreadStep ==
  \E th \in Threads :
    \/ FWTest(th)
    \/ FWCreate(th)
    \/ FWRead(th)
    \/ FWWrite(th)
    \/ SWLTest(th)
    \/ SWLReadPrune(th)
    \/ SWLWritePrune(th)
    \/ SWLCheck(th)
    \/ SWLAppend(th)

InitConc ==
  /\ Init
  /\ self.class \in {"FixedWindowCounter", "SlidingWindowLog"}
  /\ self.max_requests < NumThreads

SpecConc == InitConc /\ [][ThreadStep]_vars

AllDone == \A th \in Threads : pc[th] = "done"
Admitted == Cardinality({th \in Threads : frame[th].ret = "true"})
Denied == Cardinality({th \in Threads : frame[th].ret = "false"})

\* ---------------------------------------------------------------- properties
Last(h) == h[Len(h)]

\* the calls of history h made at the same instant as call i, from i on
BurstFrom(h, i) == {j \in i..Len(h) : h[j].t = h[i].t}

\* how many calls of the index set S of h returned True
AdmittedIn(h, S) == Cardinality({j \in S : h[j].ok})

\* the aligned window of call i of history h
WinOf(h, i) == FWCurrentWindow(h[i].t, self.window_size)

\* C1: FixedWindowCounter, key with no stored state: the calls in the window of
\* the first call return True up to the max_requests-th and False after it,
\* and the first call in a later window returns True.
C1_FixedWindowQuota ==
  self.class = "FixedWindowCounter" =>
    \A k \in Keys : \A i \in 1..Len(hist[k]) :
      LET h == hist[k] IN
        /\ WinOf(h, i) = WinOf(h, 1) => (h[i].ok <=> i <= self.max_requests)
        /\ (WinOf(h, i) > WinOf(h, 1) /\ \A j \in 1..(i - 1) : WinOf(h, j) = WinOf(h, 1))
             => h[i].ok

C1_Witness ==
  /\ self.class = "FixedWindowCounter"
  /\ \E k \in Keys :
       LET h == hist[k]
           n == self.max_requests IN
         /\ Len(h) = n + 2
         /\ \A i \in 1..n : h[i].ok
         /\ WinOf(h, n + 1) = WinOf(h, 1) /\ ~h[n + 1].ok
         /\ WinOf(h, n + 2) > WinOf(h, 1) /\ h[n + 2].ok

\* C2: SlidingWindowLog: for every key and every time T, the calls that
\* returned True with call time in (T - window_size, T] number at most
\* max_requests.
C2_SlidingWindowBound ==
  self.class = "SlidingWindowLog" =>
    \A k \in Keys : \A T \in 0..MaxTime :
      LET h == hist[k] IN
        Cardinality({i \in 1..Len(h) : /\ h[i].ok
                                       /\ h[i].t > WindowStart(T, self.window_size)
                                       /\ h[i].t <= T}) <= self.max_requests

\* a full window denied a call, and a later call was admitted after expiry
C2_Witness ==
  /\ self.class = "SlidingWindowLog"
  /\ \E k \in Keys : \E i \in 1..Len(hist[k]) : \E j \in 1..Len(hist[k]) :
       /\ i < j
       /\ ~hist[k][i].ok
       /\ hist[k][j].ok
       /\ AdmittedIn(hist[k], 1..(i - 1)) = self.max_requests

\* the first c + 1 calls of history h are made at one instant: the first c
\* return True and the (c + 1)-th returns False
FreshBurst(h, c) ==
  \A i \in 1..Len(h) :
    (i <= c + 1 /\ h[i].t = h[1].t /\ \A j \in 1..i : h[j].t = h[1].t)
      => (h[i].ok <=> i <= c)

\* C3: TokenBucket, key with no stored state: of capacity + 1 calls at the
\* same instant the first capacity return True and the last returns False.
C3_TokenBucketBurst ==
  self.class = "TokenBucket" =>
    \A k \in Keys : FreshBurst(hist[k], self.capacity)

\* C4: LeakyBucket, key with no stored state: of capacity + 1 calls at the
\* same instant the first capacity return True and the last returns False.
C4_LeakyBucketBurst ==
  self.class = "LeakyBucket" =>
    \A k \in Keys : FreshBurst(hist[k], self.capacity)

C4_Witness ==
  /\ self.class = "LeakyBucket"
  /\ \E k \in Keys :
       LET h == hist[k]
           c == self.capacity IN
         /\ Len(h) = c + 1
         /\ \A i \in 1..(c + 1) : h[i].t = h[1].t
         /\ \A i \in 1..c : h[i].ok
         /\ ~h[c + 1].ok

\* C5: NumThreads concurrent is_allowed calls for one key on a window limiter
\* with max_requests < NumThreads: never more than max_requests are admitted,
\* and when all have returned exactly max_requests returned True and the
\* others False.
C5_ConcurrentQuota ==
  /\ Admitted <= self.max_requests
  /\ AllDone => /\ Admitted = self.max_requests
                /\ Denied = NumThreads - self.max_requests

\* C6: after reset() the dict holds no client, and the next is_allowed call
\* of any key returns True, also for a key whose last call before the reset
\* was denied at the same clock time.
C6_ResetReadmits ==
  wasReset =>
    /\ DOMAIN Store(self) = {k \in Keys : hist[k] # <<>>}
    /\ \A k \in Keys : hist[k] # <<>> => hist[k][1].ok

C6_Witness ==
  \E k \in atLimit :
    /\ hist[k] # <<>>
    /\ hist[k][1].t = clock
    /\ hist[k][1].ok

\* the TokenBucket burst bound with the credit `stored` left by the denied call
TBBurstBound(stored, gap) ==
  Min(self.capacity * Unit, stored + gap * self.refill_rate) \div Unit

\* C7 as stated: TokenBucket: after a denied call and then t seconds without a
\* call, a same-instant burst admits at most floor(min(C, t*r)) calls, and
\* exactly that many when it has at least that many calls.
C7_RefillBurstOriginal ==
  self.class = "TokenBucket" =>
    \A k \in Keys : \A i \in 2..Len(hist[k]) :
      LET h == hist[k]
          gap == h[i].t - h[i - 1].t
          burst == BurstFrom(h, i)
          bound == TBBurstBound(0, gap) IN
        (~h[i - 1].ok /\ gap > 0) =>
          /\ AdmittedIn(h, burst) <= bound
          /\ Cardinality(burst) >= bound => AdmittedIn(h, burst) = bound

\* C7 amended: the bound is floor(min(C, s + t*r)), s the credit (below one
\* token) that the denied call left stored.
C7_RefillBurst ==
  self.class = "TokenBucket" =>
    \A k \in Keys : \A i \in 2..Len(hist[k]) :
      LET h == hist[k]
          gap == h[i].t - h[i - 1].t
          burst == BurstFrom(h, i)
          bound == TBBurstBound(h[i - 1].level, gap) IN
        (~h[i - 1].ok /\ gap > 0) =>
          /\ h[i - 1].level < Unit
          /\ AdmittedIn(h, burst) <= bound
          /\ Cardinality(burst) >= bound => AdmittedIn(h, burst) = bound

\* a burst exhausted the bucket, and the burst after the wait admitted a call
\* and then denied one
C7_Witness ==
  /\ self.class = "TokenBucket"
  /\ \E k \in Keys : \E i \in 2..Len(hist[k]) :
       LET h == hist[k] IN
         /\ ~h[i - 1].ok
         /\ h[i].t > h[i - 1].t
         /\ h[i].ok
         /\ \E j \in BurstFrom(h, i) : ~h[j].ok

\* C8: LeakyBucket: a call made t seconds after the previous one sees the
\* stored level L lowered by min(L, t*r); from a full bucket the same-instant
\* burst that follows never admits more than min(L, t*r) calls, and admits
\* that many when it runs until a call is denied.
C8_LeakBurst ==
  self.class = "LeakyBucket" =>
    \A k \in Keys : \A i \in 2..Len(hist[k]) :
      LET h == hist[k]
          gap == h[i].t - h[i - 1].t
          L == h[i - 1].level
          leaked == Min(L, gap * self.leak_rate)
          seen == h[i].level - (IF h[i].ok THEN Unit ELSE 0)
          burst == BurstFrom(h, i) IN
        gap > 0 =>
          /\ seen = L - leaked
          /\ L = self.capacity * Unit =>
               /\ AdmittedIn(h, burst) * Unit <= leaked
               /\ (\E j \in burst : ~h[j].ok) => AdmittedIn(h, burst) * Unit = leaked

\* C9: SlidingWindowLog: a call that returns False leaves the stored list of
\* its key as it was.
C9_DenialKeepsLog ==
  [][\A k \in Keys :
       (/\ self.class = "SlidingWindowLog"
        /\ Len(hist'[k]) = Len(hist[k]) + 1
        /\ ~Last(hist'[k]).ok)
         => /\ k \in DOMAIN self.logs
            /\ self'.logs[k] = self.logs[k]]_vars

C9_Witness ==
  /\ self.class = "SlidingWindowLog"
  /\ \E k \in Keys :
       /\ Len(hist[k]) >= 2
       /\ ~Last(hist[k]).ok
       /\ Last(hist[k]).t > hist[k][1].t

\* C10: a client that made no request for longer than the retention horizon
\* is no longer in the per-client dict, without any reset().
C10_IdleEvicted ==
  \A k \in DOMAIN Store(self) :
    hist[k] # <<>> /\ clock - Last(hist[k]).t <= RetentionHorizon

\* ---------------------------------------------------------------- construction as an operation
(* The constructors validate nothing: they store their arguments.  Here    *)
(* the object is built by a step, from arguments that include 0.           *)

Accepted ==
  {FixedWindowCounterInit(w, n) : w \in 0..MaxWindow, n \in 1..MaxRequests}
  \cup {SlidingWindowLogInit(w, n) : w \in 0..MaxWindow, n \in 1..MaxRequests}
  \cup {SlidingWindowCounterInit(w, n) : w \in 0..MaxWindow, n \in 1..MaxRequests}
  \cup {TokenBucketInit(c, r) : c \in 0..MaxCapacity, r \in 0..MaxRateNum}
  \cup {LeakyBucketInit(c, r) : c \in 0..MaxCapacity, r \in 0..MaxRateNum}

InitCfg ==
  /\ self = NoObject
  /\ twin = NoObject
  /\ InitRest

Construct ==
  /\ self = NoObject
  /\ self' \in Accepted
  /\ UNCHANGED <<clock, hist, wasReset, atLimit, calls, pc, frame, error, twin, resp>>

NextCfg ==
  \/ Construct
  \/ Tick
  \/ IsAllowed
  \/ Reset

SpecCfg == InitCfg /\ [][NextCfg]_vars

\* the configuration the specification calls valid
ValidConfig(o) ==
  CASE o.class \in {"FixedWindowCounter", "SlidingWindowLog", "SlidingWindowCounter"} ->
         o.window_size > 0
    [] o.class = "TokenBucket" -> o.capacity > 0 /\ o.refill_rate > 0
    [] o.class = "LeakyBucket" -> o.capacity > 0 /\ o.leak_rate > 0

\* C11: no limiter object exists with a non-positive window size, capacity or
\* rate, and no is_allowed call fails.
C11_InvalidConfigRejected ==
  self # NoObject => (ValidConfig(self) /\ error = "none")

\* ---------------------------------------------------------------- log and counter side by side
(* A SlidingWindowLog (self) and a SlidingWindowCounter (twin) built with  *)
(* the same arguments receive the same calls at the same times.            *)

\* the twin object with the record of what its calls returned
WithRets(o) ==
  [f \in (DOMAIN o) \cup {"rets"} |-> IF f = "rets" THEN [k \in Keys |-> <<>>] ELSE o[f]]

InitPair ==
  /\ \E w \in 1..MaxWindow, n \in 1..MaxRequests :
       /\ self = SlidingWindowLogInit(w, n)
       /\ twin = WithRets(SlidingWindowCounterInit(w, n))
  /\ InitRest

PairIsAllowed(k) ==
  /\ SWLCall(k)
  /\ LET r == SWCDecide(twin, k, clock) IN
       twin' = [twin EXCEPT !.requests = r.requests, !.rets[k] = Append(@, r.ok)]
  /\ UNCHANGED <<clock, wasReset, atLimit, pc, frame, resp>>

PairReset ==
  /\ ResetCall
  /\ twin' = [ResetObject(twin) EXCEPT !.rets = [k \in Keys |-> <<>>]]
  /\ UNCHANGED <<clock, calls, pc, frame, error, resp>>

PairCall == \E k \in Keys : PairIsAllowed(k)

NextPair ==
  \/ Tick
  \/ PairCall
  \/ PairReset

SpecPair == InitPair /\ [][NextPair]_vars

MaxDispatch == 3

\* endpoint_limiters of src/main.py, inverted
PathOf(class) ==
  CASE class = "FixedWindowCounter" -> "/fixed-window"
    [] class = "SlidingWindowLog" -> "/sliding-window-log"
    [] class = "SlidingWindowCounter" -> "/sliding-window-counter"
    [] class = "TokenBucket" -> "/token-bucket"
    [] class = "LeakyBucket" -> "/leaky-bucket"

Paths == {PathOf(self.class), "/info"}

\* self.endpoint_limiters.get(request.url.path) found a limiter
LimiterFound(path) == path = PathOf(self.class)

\* _default_get_client_id of a request that has a client
GetClientId(host) == host

\* the is_allowed call of the dispatch, on whichever class the limiter has
Consult(k) ==
  \/ FWCall(k)
  \/ SWLCall(k)
  \/ SWCCall(k)
  \/ TBCall(k)
  \/ LBCall(k)

\* a dispatch that forwards whatever the limiter said
EndpointForwardsAll(found, allowed) == TRUE

\* lines 80-92: the request goes on to call_next
EndpointForwards(found, allowed) == ~found \/ allowed

\* lines 83-90
EndpointReject(client_id, path) ==
  [status |-> 429, forwarded |-> FALSE, header |-> "",
   body |-> [detail |-> "Rate limit exceeded. Too many requests.",
             client_id |-> client_id, endpoint |-> path]]

\* lines 40-46
GlobalReject(client_id) ==
  [status |-> 429, forwarded |-> FALSE, header |-> "",
   body |-> [detail |-> "Rate limit exceeded. Too many requests.",
             client_id |-> client_id]]

\* the response of the endpoint handler behind call_next
Handled(header) ==
  [status |-> 200, forwarded |-> TRUE, header |-> header,
   body |-> [message |-> "Request successful"]]

\* an exception out of is_allowed leaves the middleware
Failed == [status |-> 500, forwarded |-> FALSE, header |-> "", body |-> <<>>]

Respond(via, path, client_id, r) ==
  resp' = [n |-> resp.n + 1, via |-> via, path |-> path, client_id |-> client_id,
           status |-> r.status, forwarded |-> r.forwarded, body |-> r.body,
           header |-> r.header]

\* EndpointRateLimitMiddleware.dispatch
EndpointDispatch(path, host) ==
  /\ resp.n < MaxDispatch
  /\ IF LimiterFound(path)
     THEN LET client_id == GetClientId(host) IN
            /\ Consult(client_id)
            /\ IF error' # "none"
               THEN Respond("endpoint", path, client_id, Failed)
               ELSE LET allowed == hist'[client_id][Len(hist'[client_id])].ok IN
                      IF EndpointForwards(TRUE, allowed)
                      THEN Respond("endpoint", path, client_id, Handled(""))
                      ELSE Respond("endpoint", path, client_id, EndpointReject(client_id, path))
     ELSE /\ EndpointForwards(FALSE, FALSE)
          /\ Respond("endpoint", path, "", Handled(""))
          /\ UNCHANGED <<self, hist, calls, error>>
  /\ UNCHANGED <<clock, wasReset, atLimit, pc, frame, twin>>

\* RateLimitMiddleware.dispatch
GlobalDispatch(path, host) ==
  /\ resp.n < MaxDispatch
  /\ LET client_id == GetClientId(host) IN
       /\ Consult(client_id)
       /\ IF error' # "none"
          THEN Respond("global", path, client_id, Failed)
          ELSE IF ~hist'[client_id][Len(hist'[client_id])].ok
               THEN Respond("global", path, client_id, GlobalReject(client_id))
               ELSE Respond("global", path, client_id, Handled(client_id))
  /\ UNCHANGED <<clock, wasReset, atLimit, pc, frame, twin>>

EndpointRequest == \E path \in Paths, host \in Keys : EndpointDispatch(path, host)

GlobalRequest == \E path \in Paths, host \in Keys : GlobalDispatch(path, host)

NextDispatch ==
  \/ Tick
  \/ EndpointRequest
  \/ GlobalRequest

SpecDispatch == Init /\ [][NextDispatch]_vars

\* the dispatch of this step consulted the limiter, which returned `ok`
Consulted(ok) ==
  LET c == resp'.client_id IN
    /\ calls' = calls + 1
    /\ c \in Keys
    /\ Len(hist'[c]) = Len(hist[c]) + 1
    /\ hist'[c][Len(hist'[c])].ok = ok

\* C13: a request reaches the endpoint handler iff its path has no limiter or
\* the limiter returned True for it; a request whose limiter returned False is
\* answered 429 with the client id (and the path) and is not forwarded; the
\* limiter is consulted exactly once per rate-limited request and not at all
\* otherwise.
C13_DispatchGate ==
  [][resp'.n = resp.n + 1 =>
       LET limited == resp'.via = "global" \/ LimiterFound(resp'.path) IN
         /\ limited => (Consulted(TRUE) \/ Consulted(FALSE))
         /\ ~limited => (calls' = calls /\ hist' = hist /\ self' = self)
         /\ resp'.forwarded <=> (~limited \/ Consulted(TRUE))
         /\ (limited /\ Consulted(FALSE)) =>
              /\ resp'.status = 429
              /\ resp'.body.client_id = resp'.client_id
              /\ resp'.via = "endpoint" => resp'.body.endpoint = resp'.path]_vars

\* a client's first request was forwarded and a later one answered 429 by the
\* endpoint middleware
C13_Witness ==
  /\ resp.n >= 2
  /\ resp.status = 429
  /\ resp.via = "endpoint"
  /\ resp.body.endpoint = PathOf(self.class)
  /\ \E k \in Keys : Len(hist[k]) >= 2 /\ hist[k][1].ok

\* ---------------------------------------------------------------- state invariants
\* C14: LeakyBucket: every stored level is within 0..capacity.
C14_LeakyLevelRange ==
  self.class = "LeakyBucket" =>
    \A k \in DOMAIN self.buckets :
      /\ 0 <= self.buckets[k][1]
      /\ self.buckets[k][1] <= self.capacity * Unit

\* C15: TokenBucket with capacity >= 1 and refill_rate >= 0: every stored
\* token count is within 0..capacity and every stored lastRefill is the time
\* of the client's most recent call.
C15_TokenRange ==
  (self.class = "TokenBucket" /\ self.capacity >= 1) =>
    \A k \in DOMAIN self.buckets :
      /\ 0 <= self.buckets[k][1]
      /\ self.buckets[k][1] <= self.capacity * Unit
      /\ hist[k] # <<>>
      /\ self.buckets[k][2] = Last(hist[k]).t

\* a denied call stored a refilled fraction of a token, later than the first call
C15_Witness ==
  /\ self.class = "TokenBucket"
  /\ self.capacity >= 1
  /\ \E k \in DOMAIN self.buckets :
       /\ ~Last(hist[k]).ok
       /\ self.buckets[k][1] > 0
       /\ self.buckets[k][2] > hist[k][1].t

\* C16: SlidingWindowLog: every stored log has at most max_requests entries,
\* is in non-decreasing time order, and holds only timestamps later than
\* now - window_size, now the time of the key's last call.
C16_LogShape ==
  self.class = "SlidingWindowLog" =>
    \A k \in DOMAIN self.logs :
      LET log == self.logs[k] IN
        /\ Len(log) <= self.max_requests
        /\ \A i \in 1..(Len(log) - 1) : log[i] <= log[i + 1]
        /\ hist[k] # <<>>
        /\ \A i \in 1..Len(log) : log[i] > WindowStart(Last(hist[k]).t, self.window_size)

\* a full log from which the key's first timestamp has been pruned
C16_Witness ==
  /\ self.class = "SlidingWindowLog"
  /\ \E k \in DOMAIN self.logs :
       /\ Len(self.logs[k]) = self.max_requests
       /\ self.logs[k][1] > hist[k][1].t
       /\ \E i \in 1..Len(hist[k]) : ~hist[k][i].ok

\* the calls of history h admitted at a time in [from, from + length)
AdmittedWithin(h, from, length) ==
  Cardinality({i \in 1..Len(h) : h[i].ok /\ from <= h[i].t /\ h[i].t < from + length})

\* C17: FixedWindowCounter: a client has at most 2 * max_requests calls
\* allowed in any half-open interval of length window_size.
C17_BoundaryBurst ==
  self.class = "FixedWindowCounter" =>
    \A k \in Keys : \A T \in 0..MaxTime :
      AdmittedWithin(hist[k], T, self.window_size * TicksPerSec) <= 2 * self.max_requests

\* 2 * max_requests calls allowed within less than window_size: max_requests at
\* the tail of one aligned window, max_requests at the head of the next
C17_Witness ==
  /\ self.class = "FixedWindowCounter"
  /\ \E k \in Keys :
       LET h == hist[k]
           n == self.max_requests IN
         /\ Len(h) = 2 * n
         /\ \A i \in 1..(2 * n) : h[i].ok
         /\ WinOf(h, n) < WinOf(h, n + 1)
         /\ h[2 * n].t - h[1].t < self.window_size * TicksPerSec

\* C18: TokenBucket: a denied call stores the refilled token count, so the
\* refill adds up over denied calls: a call made at least 1/refill_rate after
\* the client's last allowed call returns True.
C18_DeniedRefillKept ==
  self.class = "TokenBucket" =>
    \A k \in Keys : \A i \in 2..Len(hist[k]) :
      LET h == hist[k] IN
        /\ ~h[i].ok =>
             h[i].level = Min(self.capacity * Unit,
                              h[i - 1].level + (h[i].t - h[i - 1].t) * self.refill_rate)
        /\ \A a \in 1..(i - 1) :
             (/\ h[a].ok
              /\ \A j \in (a + 1)..(i - 1) : ~h[j].ok
              /\ (h[i].t - h[a].t) * self.refill_rate >= Unit)
               => h[i].ok

\* a call admitted 1/refill_rate after the last allowed one, with a denied call
\* that stored a fraction of a token in between
C18_Witness ==
  /\ self.class = "TokenBucket"
  /\ \E k \in Keys : \E i \in 3..Len(hist[k]) :
       LET h == hist[k] IN
         /\ h[i].ok
         /\ ~h[i - 1].ok
         /\ h[i - 1].level > 0
         /\ h[i - 2].ok
         /\ h[i - 1].t > h[i - 2].t
         /\ h[i].t > h[i - 1].t
         /\ (h[i].t - h[i - 2].t) * self.refill_rate = Unit

C20_TokenRateBound ==
  self.class = "TokenBucket" =>
    \A k \in Keys : \A T1 \in 0..MaxTime : \A T2 \in T1..MaxTime :
      AdmittedWithin(hist[k], T1, T2 - T1 + 1) * Unit
        <= self.capacity * Unit + (T2 - T1) * self.refill_rate

\* ---------------------------------------------------------------- one client at a time
\* is_allowed(k) at time t on object o: the decision and the object it leaves
Decide(o, k, t) ==
  CASE o.class = "FixedWindowCounter" ->
         LET r == FWDecide(o, k, t) IN [ok |-> r.ok, obj |-> [o EXCEPT !.requests = r.requests]]
    [] o.class = "SlidingWindowLog" ->
         LET r == SWLDecide(o, k, t) IN [ok |-> r.ok, obj |-> [o EXCEPT !.logs = r.logs]]
    [] o.class = "SlidingWindowCounter" ->
         LET r == SWCDecide(o, k, t) IN [ok |-> r.ok, obj |-> [o EXCEPT !.requests = r.requests]]
    [] o.class = "TokenBucket" ->
         LET r == TBDecide(o, k, t) IN [ok |-> r.ok, obj |-> [o EXCEPT !.buckets = r.buckets]]
    [] o.class = "LeakyBucket" ->
         LET r == LBDecide(o, k, t) IN [ok |-> r.ok, obj |-> [o EXCEPT !.buckets = r.buckets]]

\* is_allowed(k) at the times of the first n calls of h, made on an object of
\* o's configuration that holds no client: the decisions and the object left
RECURSIVE Replay(_, _, _, _)
Replay(o, k, h, n) ==
  IF n = 0 THEN [oks |-> <<>>, obj |-> ResetObject(o)]
  ELSE LET before == Replay(o, k, h, n - 1)
           r == Decide(before.obj, k, h[n].t) IN
         [oks |-> Append(before.oks, r.ok), obj |-> r.obj]

\* the calls of a short run
ShortCalls == 4

\* is_allowed, for any key, in a short run
ShortCall ==
  /\ calls < ShortCalls
  /\ IsAllowed

NextShort ==
  \/ Tick
  \/ ShortCall
  \/ Reset

\* sequential use, with at most ShortCalls calls
SpecShort == Init /\ [][NextShort]_vars

\* C21: per-client isolation: the decisions for a key and the entry stored
\* for it are those of the same limiter called for that key alone, at the
\* times of the key's calls since the last reset; no call for another key
\* changes them.
C21_ClientIsolation ==
  \A k \in Keys :
    LET h == hist[k]
        alone == Replay(self, k, h, Len(h)) IN
      /\ alone.oks = [i \in 1..Len(h) |-> h[i].ok]
      /\ k \in DOMAIN Store(self) <=> h # <<>>
      /\ h # <<>> => Store(self)[k] = Store(alone.obj)[k]

\* one client is denied while another, first seen at the same instant, is
\* admitted, and both entries are stored
C21_Witness ==
  \E k \in Keys : \E k2 \in Keys \ {k} :
    /\ Len(hist[k]) >= 2
    /\ ~Last(hist[k]).ok
    /\ Last(hist[k]).t = clock
    /\ Len(hist[k2]) = 1
    /\ hist[k2][1].ok
    /\ hist[k2][1].t = clock
    /\ {k, k2} \subseteq DOMAIN Store(self)

\* ---------------------------------------------------------------- a run without end
(* The clock advances for ever and clients call for ever.  No decision     *)
(* reads an absolute time: the window classes compare stored timestamps    *)
(* with now - window_size (lines 88-90, 124-125), the buckets use          *)
(* now - last (lines 163, 205), and FixedWindowCounter compares the        *)
(* stored window start with the start of the aligned window that holds     *)
(* now (lines 46, 54).  So the clock is kept modulo a period that is a     *)
(* whole number of windows, and each time it wraps every stored timestamp  *)
(* moves back by one period.  A timestamp older than Oldest is as good as  *)
(* Oldest: a window has dropped it, a bucket has refilled or drained       *)
(* completely since.                                                       *)

IsBucket(o) == o.class \in {"TokenBucket", "LeakyBucket"}

\* the period of the clock, in ticks
Period(o) == IF IsBucket(o) THEN TicksPerSec ELSE o.window_size * TicksPerSec

\* the oldest timestamp told apart, in ticks
Oldest(o) == IF IsBucket(o) THEN 0 - (o.capacity + 1) * Unit
                            ELSE 0 - o.window_size * TicksPerSec

\* a stored time.time() value, one period later
ShiftTime(o, ts) == Max(ts - Period(o), Oldest(o))

\* a stored window start (whole seconds), one period later
ShiftWindow(o, ws) == Max(ws - o.window_size, 0 - o.window_size)

\* the object when the clock wraps
Rebase(o) ==
  CASE o.class = "FixedWindowCounter" ->
         [o EXCEPT !.requests = [k \in DOMAIN @ |-> <<ShiftWindow(o, @[k][1]), @[k][2]>>]]
    [] o.class = "SlidingWindowLog" ->
         [o EXCEPT !.logs = [k \in DOMAIN @ |-> [i \in 1..Len(@[k]) |-> ShiftTime(o, @[k][i])]]]
    [] o.class = "SlidingWindowCounter" ->
         [o EXCEPT !.requests = [k \in DOMAIN @ |-> [i \in 1..Len(@[k]) |-> ShiftTime(o, @[k][i])]]]
    [] o.class = "TokenBucket" ->
         [o EXCEPT !.buckets = [k \in DOMAIN @ |-> <<@[k][1], ShiftTime(o, @[k][2])>>]]
    [] o.class = "LeakyBucket" ->
         [o EXCEPT !.buckets = [k \in DOMAIN @ |-> <<@[k][1], ShiftTime(o, @[k][2])>>]]

\* what Record notes as the level of key k after a call
Level(o, k) ==
  CASE o.class = "FixedWindowCounter" -> o.requests[k][2]
    [] o.class = "SlidingWindowLog" -> Len(o.logs[k])
    [] o.class = "SlidingWindowCounter" -> Len(o.requests[k])
    [] o.class = "TokenBucket" -> o.buckets[k][1]
    [] o.class = "LeakyBucket" -> o.buckets[k][1]

\* the client that keeps calling; the other clients make no difference to it
\* (C21)
LiveKey == "a"

\* a call of which only the decision is remembered
Forget(rec) == [rec EXCEPT !.t = 0, !.level = 0]

\* the history of a run without end: the last call, and before it the
\* decision of the call that preceded it
Shorten(h) == IF h = <<>> THEN <<>> ELSE <<Forget(Last(h))>>

\* time passes
LiveTick ==
  /\ IF clock + 1 = Period(self)
     THEN /\ clock' = 0
          /\ self' = Rebase(self)
          /\ hist' = [k \in Keys |->
                        [i \in 1..Len(hist[k]) |->
                           IF i = Len(hist[k])
                           THEN [hist[k][i] EXCEPT !.t = ShiftTime(self, @)]
                           ELSE hist[k][i]]]
     ELSE /\ clock' = clock + 1
          /\ UNCHANGED <<self, hist>>
  /\ atLimit' = {}
  /\ UNCHANGED <<wasReset, calls, pc, frame, error, twin, resp>>

\* is_allowed(k), the history keeping the last calls only
LiveIsAllowed(k) ==
  /\ LET r == Decide(self, k, clock) IN
       /\ self' = r.obj
       /\ hist' = [hist EXCEPT
                     ![k] = Append(Shorten(@), [t |-> clock, ok |-> r.ok, level |-> Level(r.obj, k)])]
  /\ UNCHANGED <<clock, wasReset, atLimit, calls, pc, frame, error, twin, resp>>

LiveCall == LiveIsAllowed(LiveKey)

NextLive ==
  \/ LiveTick
  \/ LiveCall

\* the clock keeps advancing and the client keeps calling
SpecLive ==
  /\ Init
  /\ [][NextLive]_vars
  /\ WF_vars(LiveTick)
  /\ WF_vars(LiveCall)

\* C22: no permanent lockout: with a positive configuration, the clock
\* advancing and a client calling again and again, every denied call of the
\* client is followed by an allowed one.
C22_NoLockout ==
  (hist[LiveKey] # <<>> /\ ~Last(hist[LiveKey]).ok)
    ~> (hist[LiveKey] # <<>> /\ Last(hist[LiveKey]).ok)

\* the client is admitted in the call that follows a denied one, with stored
\* timestamps as old as the model tells apart
C22_Witness ==
  /\ Len(hist[LiveKey]) = 2
  /\ ~hist[LiveKey][1].ok
  /\ hist[LiveKey][2].ok
  /\ hist[LiveKey][2].t = clock
  /\ self # ResetObject(self)
  /\ Rebase(Rebase(self)) = Rebase(self)

\* ---------------------------------------------------------------- denied calls
\* the history without its i-th call
Without(h, i) == SubSeq(h, 1, i - 1) \o SubSeq(h, i + 1, Len(h))

\* the decisions of is_allowed(k) at the times of h, on an object of o's
\* configuration that holds no client
Decisions(o, k, h) == Replay(o, k, h, Len(h)).oks

\* C23: a denied call carries no penalty: the run without any one call that
\* returned False decides every other call as the run with it does.
C23_DenialFree ==
  \A k \in Keys : \A i \in 1..Len(hist[k]) :
    ~hist[k][i].ok =>
      Decisions(self, k, Without(hist[k], i))
        = Without([j \in 1..Len(hist[k]) |-> hist[k][j].ok], i)

\* a denied call that changed the stored entry (a pruned log, a partial
\* refill, a drained level), made later than the call before it and followed
\* by an allowed call later still
C23_Witness ==
  \E k \in Keys : \E i \in 2..(Len(hist[k]) - 1) :
    LET h == hist[k] IN
      /\ ~h[i].ok
      /\ h[i + 1].ok
      /\ h[i - 1].t < h[i].t
      /\ h[i].t < h[i + 1].t
      /\ Store(Replay(self, k, h, i).obj)[k] # Store(Replay(self, k, h, i - 1).obj)[k]

====
